---- MODULE Spec2Model ----
(***************************************************************************)
(* Model of the training orchestrator of train.py: class Trainer           *)
(* (save_checkpoint, load_checkpoint, _train_mlp_submodules, train) and    *)
(* main.  Tensors are abstracted to what the control logic can observe:    *)
(* model parameters and optimizer state are update counts, gradients are   *)
(* a four-valued status, the checkpoint directory is a map from artifact   *)
(* key to stored snapshot.  Ratios are exact fractions <<num, den>>.       *)
(* A loss tensor is a combination of the three criterion outputs of its    *)
(* batch, held under the name first bound to it, so that an in-place       *)
(* addition through a second name is seen through the first.  The          *)
(* optimizer's state tensors live on one device.                           *)
(***************************************************************************)
EXTENDS Integers, Sequences, FiniteSets, TLC

(* ------------------------------ bounds --------------------------------- *)
MaxEpochs == 2
MaxTrain == 2
MaxValid == 1
MaxAdvGradIter == 2
MaxMlpEpochs == 1
MaxMainEpochs == 1
MaxRuns == 2
MaxRunsTrain == 1
AdvMaxEpochs == 3
AdvMaxGradIter == 4
MaxRampIter == 100
MaxRampStep == 250

(* ----------------------------- state ----------------------------------- *)
VARIABLES
  cfg,                  \* config.cfg: log_to_wandb, train_singing, model, split, run_name, load_checkpoint
  hyperparams,          \* config.hyperparams: num_epochs, train_adv, adv_grad_iter
  train_len,            \* len(self.train_loader)
  valid_len,            \* len(self.valid_loader)
  entry,                \* who drives the Trainer: "main" (the script), "api" or "pretrain" (callers of its methods)
  run,                  \* ordinal of the current process run
  device,               \* self.device: "cpu" | "cuda"
  twin,                 \* outcome of the same call made with logging enabled, NoTwin if none was made
  pc,                   \* control position
  err,                  \* exception that ended the run, "none" if none
  calls,                \* Trainer methods entered so far in this run
  cur_epoch,            \* self.cur_epoch
  epoch_it,             \* next value of range(self.cur_epoch, num_epochs)
  bi,                   \* batches already drawn from the loader being iterated
  mlp,                  \* arguments and epoch position of _train_mlp_submodules
  num_iter,             \* local num_iter of train
  adv_iter,             \* local adv_iter of train
  adv_loss_multiplier,  \* local adv_loss_multiplier of train
  losses,               \* the loss tensors of the current batch of train, by the name first bound to each
  model_mode,           \* "train" / "eval"
  mixup,                \* dataset mixup toggle
  frozen,               \* backbone frozen (requires_grad False)
  params,               \* model parameters: update counts of the mlp heads and the backbone
  opt_state,            \* optimizer state: number of steps taken
  opt_device,           \* device holding the optimizer's state tensors, "none" while it has none
  grads,                \* "none" | "zero" | "raw" | "clipped"
  wandb_log,            \* calls received by the metrics sink: [key, step]
  fs,                   \* checkpoints/: artifact key -> stored snapshot
  fs_writes,            \* keys written by torch.save, in order, over all runs
  fs_saved,             \* artifact key -> Trainer state handed to the last torch.save of that key
  trace                 \* operations performed in this run: <<op, epoch, n>>

envVars == <<cfg, hyperparams, train_len, valid_len, entry, run, device, twin>>
ctlVars == <<pc, err, calls>>
loopVars == <<cur_epoch, epoch_it, bi, mlp>>
cntVars == <<num_iter, adv_iter, adv_loss_multiplier, losses>>
modeVars == <<model_mode, mixup, frozen>>
optVars == <<params, opt_state, opt_device, grads>>
outVars == <<wandb_log, fs, fs_writes, fs_saved>>
vars == <<envVars, ctlVars, loopVars, cntVars, modeVars, optVars, outVars, trace>>

(* --------------------------- helpers ----------------------------------- *)
NoStep == 0 - 1
NoPath == <<>>

\* Exact fractions <<n, d>> with d > 0, standing for Python's true division.
Frac(n, d) == <<n, d>>
FracLess(a, b) == a[1] * b[2] < b[1] * a[2]
FracLeq(a, b) == a[1] * b[2] <= b[1] * a[2]
FracEq(a, b) == a[1] * b[2] = b[1] * a[2]
One == Frac(1, 1)
Zero == Frac(0, 1)

\* Python's min(a, b): b only when b < a, otherwise the first argument.
PyMin(a, b) == IF FracLess(b, a) THEN b ELSE a

PyMax(a, b) == IF FracLess(a, b) THEN b ELSE a
RampBug(s, g) == PyMax(One, Frac(s, g))
\* min(1, adv_iter / self.hyperparams.adv_grad_iter), for adv_grad_iter # 0
RampMultiplier(s, g) == PyMin(One, Frac(s, g))

Ev(op, n) == <<op, cur_epoch, n>>
Log(key, step) == [key |-> key, step |-> step]
LogValue(key, step, value) == [key |-> key, step |-> step, value |-> value]

\* A scalar loss tensor holds a combination <<l, v, s>> of the three criterion outputs
\* of a batch: bce of the leitmotif head, ce of the version head, bce of the singing head.
NoTensor == <<>>
BceLeitmotif == <<One, Zero, Zero>>
CeVersion == <<Zero, One, Zero>>
BceSinging == <<Zero, Zero, One>>
FracAdd(a, b) == Frac(a[1] * b[2] + b[1] * a[2], a[2] * b[2])
FracMul(a, b) == Frac(a[1] * b[1], a[2] * b[2])
TensorAdd(x, y) == [i \in 1 .. 3 |-> FracAdd(x[i], y[i])]
TensorScale(m, x) == [i \in 1 .. 3 |-> FracMul(m, x[i])]
TensorEq(x, y) == x # NoTensor /\ y # NoTensor /\ \A i \in 1 .. 3 : FracEq(x[i], y[i])

\* x += y on a tensor: Tensor.__iadd__ adds into the object x is bound to
IAdd(heap, x, y) == [heap EXCEPT ![x] = TensorAdd(@, y)]

NoLosses == [leitmotif_loss |-> NoTensor, version_loss |-> NoTensor, singing_loss |-> NoTensor]
\* line 88, loss = leitmotif_loss: the name loss is bound to the tensor of leitmotif_loss
LossRef == "leitmotif_loss"
\* line 94, adv_loss = version_loss: the name adv_loss is bound to the tensor of version_loss
AdvLossRef == "version_loss"

\* f"checkpoints/{cfg.model}/{cfg.run_name}_epoch{cur_epoch}.pt"
CkptPath(c, e) == <<c.model, c.run_name, e>>

Raise(kind) == /\ pc' = "error"
               /\ err' = kind

ModelKinds == {"RNN", "CNN"}
SplitMethods == {"version", "act"}
RunNames == {"run"}
Devices == {"cpu", "cuda"}
NoTwin == [pc |-> "none"]


(* ------------------------- configurations ------------------------------ *)
\* A run started by the script: any selector value may be configured.
MainCfgs ==
  [log_to_wandb : BOOLEAN, train_singing : {FALSE},
   model : ModelKinds \cup {"other"}, split : SplitMethods \cup {"other"},
   run_name : RunNames, load_checkpoint : {NoPath} \cup {<<"RNN", "run", 0>>}]

MainHyperparams ==
  [num_epochs : 0 .. MaxMainEpochs, train_adv : BOOLEAN, adv_grad_iter : {1}]

\* A caller constructs a Trainer and calls train on it, without resuming.
ApiCfgs ==
  [log_to_wandb : BOOLEAN, train_singing : BOOLEAN,
   model : ModelKinds, split : {"version"},
   run_name : RunNames, load_checkpoint : {NoPath}]

Hyperparams ==
  [num_epochs : 0 .. MaxEpochs, train_adv : BOOLEAN, adv_grad_iter : 0 .. MaxAdvGradIter]

\* A caller pre-trains the MLP heads with _train_mlp_submodules and then calls train.
PretrainCfgs ==
  [log_to_wandb : BOOLEAN, train_singing : {FALSE},
   model : {"CNN"}, split : {"act"},
   run_name : RunNames, load_checkpoint : {NoPath}]

PretrainHyperparams ==
  [num_epochs : 0 .. MaxMainEpochs, train_adv : BOOLEAN, adv_grad_iter : {1}]

\* _train_mlp_submodules is not executing: its arguments and locals do not exist
NoMlp == [num_epochs |-> 0, train_singing |-> FALSE, epoch |-> 0]

\* Trainer.__init__ plus the freshly built model, optimizer and dataset.
Fresh ==
  /\ err = "none"
  /\ calls = {}
  /\ cur_epoch = 0
  /\ epoch_it = 0
  /\ bi = 0
  /\ mlp = NoMlp
  /\ num_iter = 0
  /\ adv_iter = 0
  /\ adv_loss_multiplier = Zero
  /\ losses = NoLosses
  /\ model_mode = "train"
  /\ mixup = FALSE
  /\ frozen = FALSE
  /\ params = [mlp |-> 0, backbone |-> 0]
  /\ opt_state = 0
  /\ opt_device = "none"
  /\ grads = "none"
  /\ wandb_log = <<>>
  /\ trace = <<>>

Driver(e, cfgs, hps, start) ==
  /\ entry = e
  /\ cfg \in cfgs
  /\ hyperparams \in hps
  /\ pc = start

Init ==
  /\ train_len \in 0 .. MaxTrain
  /\ valid_len \in 0 .. MaxValid
  /\ run = 1
  /\ device = "cpu"
  /\ twin = NoTwin
  /\ \/ Driver("main", MainCfgs, MainHyperparams, "main_split")
     \/ Driver("api", ApiCfgs, Hyperparams, "api")
     \/ Driver("pretrain", PretrainCfgs, PretrainHyperparams, "pretrain")
  /\ Fresh
  /\ fs = <<>>
  /\ fs_writes = <<>>
  /\ fs_saved = <<>>

(* ------------------------------ main ----------------------------------- *)
\* lines 169-177: the split selector
MainSplit ==
  /\ pc = "main_split"
  /\ IF cfg.split \in SplitMethods
       THEN pc' = "main_model" /\ err' = err
       ELSE Raise("ValueError: Invalid split method")
  /\ UNCHANGED <<envVars, calls, loopVars, cntVars, modeVars, optVars, outVars, trace>>

MainModelUnchecked ==
  /\ pc = "main_model"
  /\ pc' = "main_trainer"
  /\ err' = err
  /\ UNCHANGED <<envVars, calls, loopVars, cntVars, modeVars, optVars, outVars, trace>>
\* lines 183-201: the model selector
MainModel ==
  /\ pc = "main_model"
  /\ IF cfg.model \in ModelKinds
       THEN pc' = "main_trainer" /\ err' = err
       ELSE Raise("ValueError: Invalid model name")
  /\ UNCHANGED <<envVars, calls, loopVars, cntVars, modeVars, optVars, outVars, trace>>

\* lines 203-211: optimizer, Trainer(...), trainer.train()
MainTrainer ==
  /\ pc = "main_trainer"
  /\ pc' = "train_init"
  /\ cur_epoch' = 0
  /\ UNCHANGED <<envVars, err, calls, epoch_it, bi, mlp, cntVars, modeVars, optVars, outVars, trace>>

\* a caller invokes trainer.train()
CallTrain ==
  /\ pc = "api"
  /\ pc' = "train_init"
  /\ UNCHANGED <<envVars, err, calls, loopVars, cntVars, modeVars, optVars, outVars, trace>>

(* ----------------------- optimizer primitives -------------------------- *)
\* optimizer.zero_grad()
ZeroGradAt(from, to) ==
  /\ pc = from
  /\ pc' = to
  /\ grads' = "zero"
  /\ trace' = Append(trace, Ev("zero_grad", bi))
  /\ UNCHANGED <<envVars, err, calls, loopVars, cntVars, modeVars, params, opt_state, opt_device, outVars>>

\* loss.backward()
BackwardAt(from, to) ==
  /\ pc = from
  /\ pc' = to
  /\ grads' = "raw"
  /\ trace' = Append(trace, Ev("backward", bi))
  /\ UNCHANGED <<envVars, err, calls, loopVars, cntVars, modeVars, params, opt_state, opt_device, outVars>>

ClipSkipped(from, to) ==
  /\ pc = from
  /\ pc' = to
  /\ UNCHANGED <<envVars, err, calls, loopVars, cntVars, modeVars, optVars, outVars, trace>>
\* torch.nn.utils.clip_grad_norm_(self.model.parameters(), 1)
ClipAt(from, to) ==
  /\ pc = from
  /\ pc' = to
  /\ grads' = (IF grads = "raw" THEN "clipped" ELSE grads)
  /\ trace' = Append(trace, Ev("clip", bi))
  /\ UNCHANGED <<envVars, err, calls, loopVars, cntVars, modeVars, params, opt_state, opt_device, outVars>>

\* optimizer.step(): parameters without a gradient (frozen ones) are skipped
StepAt(from, to) ==
  /\ pc = from
  /\ pc' = to
  /\ IF grads \in {"raw", "clipped"}
       THEN /\ params' = [mlp |-> params.mlp + 1,
                          backbone |-> params.backbone + (IF frozen THEN 0 ELSE 1)]
            /\ opt_state' = opt_state + 1
            /\ opt_device' = (IF opt_device = "none" THEN device ELSE opt_device)
       ELSE UNCHANGED <<params, opt_state, opt_device>>
  /\ grads' = grads
  /\ trace' = Append(trace, Ev("step", bi))
  /\ UNCHANGED <<envVars, err, calls, loopVars, cntVars, modeVars, outVars>>

(* --------------------------- Trainer.train ----------------------------- *)
TrainInitFromEpochZero ==
  /\ pc = "train_init"
  /\ pc' = "epoch_loop"
  /\ calls' = calls \cup {"train"}
  /\ num_iter' = 0
  /\ adv_iter' = 0
  /\ epoch_it' = 0
  /\ trace' = (IF cfg.log_to_wandb THEN Append(trace, Ev("wandb.init", 0)) ELSE trace)
  /\ UNCHANGED <<envVars, err, cur_epoch, bi, mlp, adv_loss_multiplier, losses, modeVars, optVars, outVars>>
TrainInitResumesCounters ==
  /\ pc = "train_init"
  /\ pc' = "epoch_loop"
  /\ calls' = calls \cup {"train"}
  /\ num_iter' = cur_epoch * train_len
  /\ adv_iter' = cur_epoch * train_len
  /\ epoch_it' = cur_epoch
  /\ trace' = (IF cfg.log_to_wandb THEN Append(trace, Ev("wandb.init", 0)) ELSE trace)
  /\ UNCHANGED <<envVars, err, cur_epoch, bi, mlp, adv_loss_multiplier, losses, modeVars, optVars, outVars>>
\* lines 69-74: wandb.init, model.to(device), the two step counters, the epoch range
TrainInit ==
  /\ pc = "train_init"
  /\ pc' = "epoch_loop"
  /\ calls' = calls \cup {"train"}
  /\ num_iter' = 0
  /\ adv_iter' = 0
  /\ epoch_it' = cur_epoch
  /\ trace' = (IF cfg.log_to_wandb THEN Append(trace, Ev("wandb.init", 0)) ELSE trace)
  /\ UNCHANGED <<envVars, err, cur_epoch, bi, mlp, adv_loss_multiplier, losses, modeVars, optVars, outVars>>

EpochBeginResetsAdvIter ==
  /\ pc = "epoch_loop"
  /\ epoch_it < hyperparams.num_epochs
  /\ cur_epoch' = epoch_it
  /\ epoch_it' = epoch_it + 1
  /\ model_mode' = "train"
  /\ mixup' = TRUE
  /\ bi' = 0
  /\ pc' = "train_loop"
  /\ adv_iter' = 0
  /\ trace' = Append(trace, <<"epoch", epoch_it, 0>>)
  /\ UNCHANGED <<envVars, err, calls, mlp, num_iter, adv_loss_multiplier, losses, frozen, optVars, outVars>>
EpochBeginKeepsMode ==
  /\ pc = "epoch_loop"
  /\ epoch_it < hyperparams.num_epochs
  /\ cur_epoch' = epoch_it
  /\ epoch_it' = epoch_it + 1
  /\ bi' = 0
  /\ pc' = "train_loop"
  /\ trace' = Append(trace, <<"epoch", epoch_it, 0>>)
  /\ UNCHANGED <<envVars, err, calls, mlp, cntVars, modeVars, optVars, outVars>>
\* lines 75-78: next epoch of the range, model.train(), enable_mixup()
EpochBegin ==
  /\ pc = "epoch_loop"
  /\ epoch_it < hyperparams.num_epochs
  /\ cur_epoch' = epoch_it
  /\ epoch_it' = epoch_it + 1
  /\ model_mode' = "train"
  /\ mixup' = TRUE
  /\ bi' = 0
  /\ pc' = "train_loop"
  /\ trace' = Append(trace, <<"epoch", epoch_it, 0>>)
  /\ UNCHANGED <<envVars, err, calls, mlp, cntVars, frozen, optVars, outVars>>

\* lines 154-155: the range is exhausted; wandb.finish()
TrainExit ==
  /\ pc = "epoch_loop"
  /\ epoch_it >= hyperparams.num_epochs
  /\ pc' = "done"
  /\ trace' = (IF cfg.log_to_wandb THEN Append(trace, Ev("wandb.finish", 0)) ELSE trace)
  /\ UNCHANGED <<envVars, err, calls, loopVars, cntVars, modeVars, optVars, outVars>>

\* lines 79-88: next training batch, forward pass, leitmotif loss
TrainForward ==
  /\ pc = "train_loop"
  /\ bi < train_len
  /\ bi' = bi + 1
  /\ pc' = "t_adv"
  /\ trace' = Append(trace, Ev("forward", bi + 1))
  /\ losses' = [losses EXCEPT !.leitmotif_loss = BceLeitmotif]
  /\ UNCHANGED <<envVars, err, calls, cur_epoch, epoch_it, mlp, num_iter, adv_iter, adv_loss_multiplier,
                 modeVars, optVars, outVars>>

\* lines 79-88 on a malformed batch: the exception propagates out of train
TrainForwardFail ==
  /\ pc = "train_loop"
  /\ bi < train_len
  /\ Raise("RuntimeError")
  /\ UNCHANGED <<envVars, calls, loopVars, cntVars, modeVars, optVars, outVars, trace>>

\* lines 93-99: version_loss, adv_loss bound to it, singing_loss added into adv_loss
VersionLosses ==
  LET bound == [losses EXCEPT !.version_loss = CeVersion,
                              !.singing_loss = IF cfg.train_singing THEN BceSinging ELSE NoTensor]
  IN  IF cfg.train_singing THEN IAdd(bound, AdvLossRef, bound.singing_loss) ELSE bound

\* line 101: loss += adv_loss_multiplier * adv_loss
TotalLosses(m) == IAdd(VersionLosses, LossRef, TensorScale(m, VersionLosses[AdvLossRef]))

AdvBranchGuardsZero ==
  /\ pc = "t_adv"
  /\ IF ~hyperparams.train_adv
       THEN /\ pc' = "t_zero"
            /\ UNCHANGED <<err, cntVars, wandb_log, trace>>
       ELSE /\ pc' = "t_zero"
            /\ err' = err
            /\ adv_loss_multiplier' = (IF hyperparams.adv_grad_iter = 0
                                         THEN One
                                         ELSE RampMultiplier(adv_iter, hyperparams.adv_grad_iter))
            /\ losses' = TotalLosses(adv_loss_multiplier')
            /\ wandb_log' = (IF cfg.log_to_wandb
                               THEN Append(wandb_log, Log("adv/loss_multiplier", num_iter))
                               ELSE wandb_log)
            /\ adv_iter' = adv_iter + 1
            /\ num_iter' = num_iter
            /\ trace' = Append(trace, Ev("ramp", adv_iter))
  /\ UNCHANGED <<envVars, calls, loopVars, modeVars, optVars, fs, fs_writes, fs_saved>>
\* lines 90-104: the adversarial branch
AdvBranch ==
  /\ pc = "t_adv"
  /\ IF ~hyperparams.train_adv
       THEN /\ pc' = "t_zero"
            /\ UNCHANGED <<err, cntVars, wandb_log, trace>>
       ELSE IF hyperparams.adv_grad_iter = 0
         THEN /\ Raise("ZeroDivisionError")
              /\ losses' = VersionLosses
              /\ UNCHANGED <<num_iter, adv_iter, adv_loss_multiplier, wandb_log, trace>>
         ELSE /\ pc' = "t_zero"
              /\ err' = err
              /\ adv_loss_multiplier' = RampMultiplier(adv_iter, hyperparams.adv_grad_iter)
              /\ losses' = TotalLosses(adv_loss_multiplier')
              /\ wandb_log' = (IF cfg.log_to_wandb
                                 THEN Append(wandb_log, Log("adv/loss_multiplier", num_iter))
                                 ELSE wandb_log)
              /\ adv_iter' = adv_iter + 1
              /\ num_iter' = num_iter
              /\ trace' = Append(trace, Ev("ramp", adv_iter))
  /\ UNCHANGED <<envVars, calls, loopVars, modeVars, optVars, fs, fs_writes, fs_saved>>

\* lines 106-109
TrainZeroGrad == ZeroGradAt("t_zero", "t_backward")
TrainBackward == BackwardAt("t_backward", "t_clip")
TrainClip == ClipAt("t_clip", "t_step")
TrainStep == StepAt("t_step", "t_log")

\* wandb.log calls of lines 113-120, all keyed by num_iter
TrainLogs ==
  <<LogValue("train/loss", num_iter, losses.leitmotif_loss),
    LogValue("train/total_loss", num_iter, losses[LossRef])>>
  \o (IF hyperparams.train_adv
        THEN <<LogValue("adv/version_loss", num_iter, losses.version_loss),
               Log("adv/version_acc", num_iter)>>
             \o (IF cfg.train_singing
                   THEN <<LogValue("adv/singing_loss", num_iter, losses.singing_loss)>>
                   ELSE <<>>)
        ELSE <<>>)

TrainLogKeepsStep ==
  /\ pc = "t_log"
  /\ pc' = "train_loop"
  /\ wandb_log' = (IF cfg.log_to_wandb THEN wandb_log \o TrainLogs ELSE wandb_log)
  /\ UNCHANGED <<envVars, err, calls, loopVars, cntVars, modeVars, optVars, fs, fs_writes, fs_saved, trace>>
\* lines 111-121: training metrics, then num_iter += 1
TrainLog ==
  /\ pc = "t_log"
  /\ pc' = "train_loop"
  /\ wandb_log' = (IF cfg.log_to_wandb THEN wandb_log \o TrainLogs ELSE wandb_log)
  /\ num_iter' = num_iter + 1
  /\ UNCHANGED <<envVars, err, calls, loopVars, adv_iter, adv_loss_multiplier, losses, modeVars,
                 optVars, fs, fs_writes, fs_saved, trace>>

\* lines 123-129: model.eval(), disable_mixup(), inference mode, the four sums
ValidBegin ==
  /\ pc = "train_loop"
  /\ bi = train_len
  /\ model_mode' = "eval"
  /\ mixup' = FALSE
  /\ bi' = 0
  /\ pc' = "valid_loop"
  /\ UNCHANGED <<envVars, err, calls, cur_epoch, epoch_it, mlp, cntVars, frozen, optVars, outVars, trace>>

ValidBatchTrains ==
  /\ pc = "valid_loop"
  /\ bi < valid_len
  /\ bi' = bi + 1
  /\ params' = [mlp |-> params.mlp + 1, backbone |-> params.backbone + 1]
  /\ opt_state' = opt_state + 1
  /\ trace' = Append(trace, Ev("valid_forward", bi + 1))
  /\ UNCHANGED <<envVars, ctlVars, cur_epoch, epoch_it, mlp, cntVars, modeVars, opt_device, grads, outVars>>
\* lines 130-143: one validation batch
ValidBatch ==
  /\ pc = "valid_loop"
  /\ bi < valid_len
  /\ bi' = bi + 1
  /\ trace' = Append(trace, Ev("valid_forward", bi + 1))
  /\ UNCHANGED <<envVars, ctlVars, cur_epoch, epoch_it, mlp, cntVars, modeVars, optVars, outVars>>

\* lines 145-150: the epoch means, total / len(self.valid_loader), logged without a step
ValidSummary ==
  /\ pc = "valid_loop"
  /\ bi = valid_len
  /\ IF cfg.log_to_wandb
       THEN IF valid_len = 0
              THEN /\ Raise("ZeroDivisionError")
                   /\ UNCHANGED wandb_log
              ELSE /\ pc' = "save"
                   /\ err' = err
                   /\ wandb_log' = Append(wandb_log, Log("valid/loss", NoStep))
       ELSE /\ pc' = "save"
            /\ UNCHANGED <<err, wandb_log>>
  /\ UNCHANGED <<envVars, calls, loopVars, cntVars, modeVars, optVars, fs, fs_writes, fs_saved, trace>>

(* ---------------------- checkpoint save and load ----------------------- *)
SnapshotNextEpoch ==
  [epoch |-> cur_epoch + 1, model |-> params, optimizer |-> opt_state, optimizer_device |-> opt_device]
\* lines 27-31
Snapshot ==
  [epoch |-> cur_epoch, model |-> params, optimizer |-> opt_state, optimizer_device |-> opt_device]

\* what the Trainer holds of the three checkpointed objects
TrainerState == <<cur_epoch, params, opt_state, opt_device>>

\* a file whose write was cut short: torch.load cannot read it
Truncated == [truncated |-> TRUE]

\* torch.save(ckpt, path): creates the file or replaces an existing one
Store(path, ckpt) ==
  [k \in DOMAIN fs \cup {path} |-> IF k = path THEN ckpt ELSE fs[k]]

SaveOnlyWhenLogging ==
  /\ pc = "save"
  /\ pc' = "epoch_loop"
  /\ IF cfg.log_to_wandb
       THEN /\ fs' = Store(CkptPath(cfg, cur_epoch), Snapshot)
            /\ fs_writes' = Append(fs_writes, CkptPath(cfg, cur_epoch))
            /\ fs_saved' = [k \in DOMAIN fs_saved \cup {CkptPath(cfg, cur_epoch)} |->
                              IF k = CkptPath(cfg, cur_epoch) THEN TrainerState ELSE fs_saved[k]]
            /\ trace' = Append(trace, Ev("save", Snapshot.epoch))
       ELSE UNCHANGED <<fs, fs_writes, fs_saved, trace>>
  /\ UNCHANGED <<envVars, err, calls, loopVars, cntVars, modeVars, optVars, wandb_log>>
\* line 152 with lines 26-34
SaveCheckpoint ==
  /\ pc = "save"
  /\ pc' = "epoch_loop"
  /\ fs' = Store(CkptPath(cfg, cur_epoch), Snapshot)
  /\ fs_writes' = Append(fs_writes, CkptPath(cfg, cur_epoch))
  /\ fs_saved' = [k \in DOMAIN fs_saved \cup {CkptPath(cfg, cur_epoch)} |->
                    IF k = CkptPath(cfg, cur_epoch) THEN TrainerState ELSE fs_saved[k]]
  /\ trace' = Append(trace, Ev("save", Snapshot.epoch))
  /\ UNCHANGED <<envVars, err, calls, loopVars, cntVars, modeVars, optVars, wandb_log>>

LoadKeepsStoredDevice ==
  /\ pc = "api"
  /\ calls = {}
  /\ calls' = {"load_checkpoint"}
  /\ IF cfg.load_checkpoint = NoPath
       THEN /\ Raise("AttributeError")
            /\ UNCHANGED <<cur_epoch, params, opt_state, opt_device>>
       ELSE IF cfg.load_checkpoint \notin DOMAIN fs
         THEN /\ Raise("FileNotFoundError")
              /\ UNCHANGED <<cur_epoch, params, opt_state, opt_device>>
         ELSE /\ pc' = pc
              /\ err' = err
              /\ cur_epoch' = fs[cfg.load_checkpoint].epoch
              /\ params' = fs[cfg.load_checkpoint].model
              /\ opt_state' = fs[cfg.load_checkpoint].optimizer
              /\ opt_device' = fs[cfg.load_checkpoint].optimizer_device
  /\ trace' = Append(trace, Ev("load", 0))
  /\ UNCHANGED <<envVars, epoch_it, bi, mlp, cntVars, modeVars, grads, outVars>>
\* lines 36-44, called by whoever drives the Trainer: torch.load, the three restores,
\* then every tensor of the optimizer state moved to self.device
LoadCheckpoint ==
  /\ pc = "api"
  /\ calls = {}
  /\ calls' = {"load_checkpoint"}
  /\ IF cfg.load_checkpoint = NoPath
       THEN /\ Raise("AttributeError")
            /\ UNCHANGED <<cur_epoch, params, opt_state, opt_device>>
       ELSE IF cfg.load_checkpoint \notin DOMAIN fs
         THEN /\ Raise("FileNotFoundError")
              /\ UNCHANGED <<cur_epoch, params, opt_state, opt_device>>
         ELSE IF fs[cfg.load_checkpoint] = Truncated
         THEN /\ Raise("UnpicklingError")
              /\ UNCHANGED <<cur_epoch, params, opt_state, opt_device>>
         ELSE /\ pc' = pc
              /\ err' = err
              /\ cur_epoch' = fs[cfg.load_checkpoint].epoch
              /\ params' = fs[cfg.load_checkpoint].model
              /\ opt_state' = fs[cfg.load_checkpoint].optimizer
              /\ opt_device' = (IF fs[cfg.load_checkpoint].optimizer_device = "none"
                                 THEN "none" ELSE device)
  /\ trace' = Append(trace, Ev("load", 0))
  /\ UNCHANGED <<envVars, epoch_it, bi, mlp, cntVars, modeVars, grads, outVars>>

(* -------------------- Trainer._train_mlp_submodules -------------------- *)
\* lines 46-49: a caller invokes the routine; model.train(), freeze_backbone(), enable_mixup()
MlpBegin ==
  /\ pc = "pretrain"
  /\ \E n \in 0 .. MaxMlpEpochs, sing \in BOOLEAN :
       mlp' = [num_epochs |-> n, train_singing |-> sing, epoch |-> 0]
  /\ calls' = calls \cup {"_train_mlp_submodules"}
  /\ model_mode' = "train"
  /\ frozen' = TRUE
  /\ mixup' = TRUE
  /\ pc' = "mlp_loop"
  /\ trace' = Append(trace, Ev("freeze", 0))
  /\ UNCHANGED <<envVars, err, cur_epoch, epoch_it, bi, cntVars, optVars, outVars>>

\* line 50: next epoch of range(num_epochs)
MlpEpochBegin ==
  /\ pc = "mlp_loop"
  /\ mlp.epoch < mlp.num_epochs
  /\ bi' = 0
  /\ pc' = "mlp_batches"
  /\ UNCHANGED <<envVars, err, calls, cur_epoch, epoch_it, mlp, cntVars, modeVars, optVars, outVars, trace>>

\* lines 51-61: next batch, forward pass, version loss (plus singing loss)
MlpForward ==
  /\ pc = "mlp_batches"
  /\ bi < train_len
  /\ bi' = bi + 1
  /\ pc' = "m_zero"
  /\ trace' = Append(trace, Ev("mlp_forward", bi + 1))
  /\ UNCHANGED <<envVars, err, calls, cur_epoch, epoch_it, mlp, cntVars, modeVars, optVars, outVars>>

\* lines 62-65
MlpZeroGrad == ZeroGradAt("m_zero", "m_backward")
MlpBackward == BackwardAt("m_backward", "m_clip")
MlpClip == ClipAt("m_clip", "m_step")
MlpStep == StepAt("m_step", "mlp_batches")

\* line 51: the loader is exhausted, back to the epoch loop
MlpEpochEnd ==
  /\ pc = "mlp_batches"
  /\ bi = train_len
  /\ mlp' = [mlp EXCEPT !.epoch = @ + 1]
  /\ pc' = "mlp_loop"
  /\ UNCHANGED <<envVars, err, calls, cur_epoch, epoch_it, bi, cntVars, modeVars, optVars, outVars, trace>>

\* line 66: unfreeze_backbone(), return to the caller (the locals are gone)
MlpUnfreeze ==
  /\ pc = "mlp_loop"
  /\ mlp.epoch >= mlp.num_epochs
  /\ frozen' = FALSE
  /\ pc' = "api"
  /\ mlp' = NoMlp
  /\ bi' = 0
  /\ trace' = Append(trace, Ev("unfreeze", 0))
  /\ UNCHANGED <<envVars, err, calls, cur_epoch, epoch_it, cntVars, model_mode, mixup, optVars, outVars>>

\* lines 51-65: any statement of the batch body raises; nothing in the routine catches it
MlpFail ==
  /\ \/ pc = "mlp_batches" /\ bi < train_len
     \/ pc \in {"m_zero", "m_backward", "m_clip", "m_step"}
  /\ Raise("RuntimeError")
  /\ UNCHANGED <<envVars, calls, loopVars, cntVars, modeVars, optVars, outVars, trace>>

(* ------------------------- specifications ------------------------------ *)
MainNext == MainSplit \/ MainModel \/ MainTrainer

TrainNext ==
  \/ TrainInit \/ EpochBegin \/ TrainExit
  \/ TrainForward \/ TrainForwardFail \/ AdvBranch
  \/ TrainZeroGrad \/ TrainBackward \/ TrainClip \/ TrainStep \/ TrainLog
  \/ ValidBegin \/ ValidBatch \/ ValidSummary \/ SaveCheckpoint

MlpNext ==
  \/ MlpBegin \/ MlpEpochBegin \/ MlpForward
  \/ MlpZeroGrad \/ MlpBackward \/ MlpClip \/ MlpStep
  \/ MlpEpochEnd \/ MlpUnfreeze \/ MlpFail

Next == MainNext \/ CallTrain \/ MlpNext \/ TrainNext

\* One process run: the script, or a caller driving a fresh Trainer.
Spec == Init /\ [][Next]_vars

(* --------------------- runs that share checkpoints/ -------------------- *)
\* cfg of the runs of one experiment: same model kind and run name, resuming or not.
RunsCfgs ==
  [log_to_wandb : {TRUE}, train_singing : {FALSE},
   model : {"RNN"}, split : {"version"},
   run_name : RunNames,
   load_checkpoint : {NoPath} \cup ({"RNN"} \X RunNames \X (0 .. MaxEpochs - 1))]

RunsHyperparams ==
  [num_epochs : 0 .. MaxEpochs, train_adv : BOOLEAN, adv_grad_iter : {1}]

ApiRun ==
  /\ entry = "api"
  /\ cfg \in RunsCfgs
  /\ hyperparams \in RunsHyperparams
  /\ pc = "api"

InitRuns ==
  /\ train_len \in 0 .. MaxRunsTrain
  /\ valid_len \in 0 .. MaxValid
  /\ run = 1
  /\ device \in Devices
  /\ twin = NoTwin
  /\ ApiRun
  /\ Fresh
  /\ fs = <<>>
  /\ fs_writes = <<>>
  /\ fs_saved = <<>>

\* The process has ended; a new one starts on the same dataset and the same checkpoints/.
NewRun ==
  /\ pc \in {"done", "error", "killed"}
  /\ run < MaxRuns
  /\ run' = run + 1
  /\ device' \in Devices
  /\ twin' = twin
  /\ entry' = "api"
  /\ cfg' \in RunsCfgs
  /\ hyperparams' \in RunsHyperparams
  /\ pc' = "api"
  /\ err' = "none"
  /\ calls' = {}
  /\ cur_epoch' = 0
  /\ epoch_it' = 0
  /\ bi' = 0
  /\ mlp' = NoMlp
  /\ num_iter' = 0
  /\ adv_iter' = 0
  /\ adv_loss_multiplier' = Zero
  /\ losses' = NoLosses
  /\ model_mode' = "train"
  /\ mixup' = FALSE
  /\ frozen' = FALSE
  /\ params' = [mlp |-> 0, backbone |-> 0]
  /\ opt_state' = 0
  /\ opt_device' = "none"
  /\ grads' = "none"
  /\ wandb_log' = <<>>
  /\ trace' = <<>>
  /\ UNCHANGED <<train_len, valid_len, fs, fs_writes, fs_saved>>

NextRuns == CallTrain \/ LoadCheckpoint \/ TrainNext \/ NewRun

\* Successive runs of one experiment, each free to resume from a stored checkpoint.
SpecRuns == InitRuns /\ [][NextRuns]_vars

(* ---------------------- runs ended from outside ------------------------ *)
\* The process is terminated from outside.  torch.save (line 34) opens the final
\* path for writing: a process ended inside it has either not opened the file yet
\* or leaves it cut short.  Nothing else of the run touches checkpoints/.
Kill ==
  /\ pc \notin {"done", "error", "killed"}
  /\ pc' = "killed"
  /\ err' = "SIGKILL"
  /\ IF pc = "save"
       THEN fs' \in {fs, Store(CkptPath(cfg, cur_epoch), Truncated)}
       ELSE fs' = fs
  /\ UNCHANGED <<envVars, calls, loopVars, cntVars, modeVars, optVars, wandb_log, fs_writes, fs_saved, trace>>

NextKill == NextRuns \/ Kill

\* Successive runs of one experiment, any of which may be terminated at any point.
SpecKill == InitRuns /\ [][NextKill]_vars

(* ------------------ the same call with and without logging ------------ *)
\* What a finished call of train leaves behind, the metrics sink aside.
Outcome ==
  [pc |-> pc, err |-> err, cur_epoch |-> cur_epoch, num_iter |-> num_iter, adv_iter |-> adv_iter,
   params |-> params, opt_state |-> opt_state, saves |-> fs_writes,
   ops |-> SelectSeq(trace, LAMBDA e : e[1] \notin {"wandb.init", "wandb.finish"})]

InitTwin ==
  /\ train_len \in 0 .. MaxTrain
  /\ valid_len \in 0 .. MaxValid
  /\ run = 1
  /\ device = "cpu"
  /\ twin = NoTwin
  /\ Driver("api", {c \in ApiCfgs : c.log_to_wandb}, Hyperparams, "api")
  /\ Fresh
  /\ fs = <<>>
  /\ fs_writes = <<>>
  /\ fs_saved = <<>>

\* The call made with log_to_wandb has ended; the same call is made on a fresh Trainer,
\* the same loaders and an empty checkpoints/, with log_to_wandb off.
TwinRun ==
  /\ pc \in {"done", "error"}
  /\ twin = NoTwin
  /\ twin' = Outcome
  /\ cfg' = [cfg EXCEPT !.log_to_wandb = FALSE]
  /\ run' = run + 1
  /\ pc' = "api"
  /\ err' = "none"
  /\ calls' = {}
  /\ cur_epoch' = 0
  /\ epoch_it' = 0
  /\ bi' = 0
  /\ mlp' = NoMlp
  /\ num_iter' = 0
  /\ adv_iter' = 0
  /\ adv_loss_multiplier' = Zero
  /\ losses' = NoLosses
  /\ model_mode' = "train"
  /\ mixup' = FALSE
  /\ frozen' = FALSE
  /\ params' = [mlp |-> 0, backbone |-> 0]
  /\ opt_state' = 0
  /\ opt_device' = "none"
  /\ grads' = "none"
  /\ wandb_log' = <<>>
  /\ fs' = <<>>
  /\ fs_writes' = <<>>
  /\ fs_saved' = <<>>
  /\ trace' = <<>>
  /\ UNCHANGED <<hyperparams, train_len, valid_len, entry, device>>

\* train over batch streams none of whose batches fails
NextTwin ==
  \/ CallTrain \/ TwinRun
  \/ TrainInit \/ EpochBegin \/ TrainExit
  \/ TrainForward \/ AdvBranch
  \/ TrainZeroGrad \/ TrainBackward \/ TrainClip \/ TrainStep \/ TrainLog
  \/ ValidBegin \/ ValidBatch \/ ValidSummary \/ SaveCheckpoint

SpecTwin == InitTwin /\ [][NextTwin]_vars

(* ------------------------ the ramp as a function ----------------------- *)
InitRamp ==
  /\ train_len = 0
  /\ valid_len = 0
  /\ run = 1
  /\ device = "cpu"
  /\ twin = NoTwin
  /\ entry = "api"
  /\ cfg \in [log_to_wandb : {FALSE}, train_singing : {FALSE}, model : {"RNN"},
              split : {"version"}, run_name : RunNames, load_checkpoint : {NoPath}]
  /\ hyperparams \in [num_epochs : {0}, train_adv : {TRUE}, adv_grad_iter : 1 .. MaxRampIter]
  /\ Fresh
  /\ pc = "ramp_in"
  /\ fs = <<>>
  /\ fs_writes = <<>>
  /\ fs_saved = <<>>

\* A later batch of an adversarial run: adv_iter has been counted up by one.
RampAdvance ==
  /\ pc = "ramp_in"
  /\ adv_iter < MaxRampStep
  /\ adv_iter' = adv_iter + 1
  /\ UNCHANGED <<envVars, ctlVars, loopVars, num_iter, adv_loss_multiplier, losses, modeVars, optVars, outVars, trace>>

\* line 100 on its own
RampApply ==
  /\ pc = "ramp_in"
  /\ pc' = "ramp_out"
  /\ adv_loss_multiplier' = RampMultiplier(adv_iter, hyperparams.adv_grad_iter)
  /\ UNCHANGED <<envVars, err, calls, loopVars, num_iter, adv_iter, losses, modeVars, optVars, outVars, trace>>

NextRamp == RampAdvance \/ RampApply

SpecRamp == InitRamp /\ [][NextRamp]_vars

(* ------------------ long adversarial runs of train ---------------------- *)
AdvCfgs ==
  [log_to_wandb : BOOLEAN, train_singing : {FALSE}, model : {"RNN"},
   split : {"version"}, run_name : RunNames, load_checkpoint : {NoPath}]

AdvHyperparams ==
  [num_epochs : 0 .. AdvMaxEpochs, train_adv : BOOLEAN, adv_grad_iter : 1 .. AdvMaxGradIter]

InitAdv ==
  /\ train_len \in 0 .. MaxTrain
  /\ valid_len \in 0 .. MaxValid
  /\ run = 1
  /\ device = "cpu"
  /\ twin = NoTwin
  /\ entry = "api"
  /\ cfg \in AdvCfgs
  /\ hyperparams \in AdvHyperparams
  /\ pc = "api"
  /\ Fresh
  /\ fs = <<>>
  /\ fs_writes = <<>>
  /\ fs_saved = <<>>

NextAdv == CallTrain \/ TrainNext

\* One call of train on a fresh Trainer, with enough batches to pass the end of the ramp.
SpecAdv == InitAdv /\ [][NextAdv]_vars

(* ============================ properties =============================== *)
Idx(op) == {i \in DOMAIN trace : trace[i][1] = op}
Before(op, i) == {j \in Idx(op) : j <= i}

\* C1: for adv_grad_iter >= 1 and adv_iter = s >= 0 the ramp multiplier is s/adv_grad_iter
\* while s < adv_grad_iter and exactly 1 from s = adv_grad_iter on; it lies in [0, 1] and
\* does not decrease from s - 1 to s.
C1_RampLinearThenOne ==
  pc = "ramp_out" =>
    LET s == adv_iter
        g == hyperparams.adv_grad_iter
        m == adv_loss_multiplier
    IN /\ s < g => m = Frac(s, g)
       /\ s >= g => m = One
       /\ FracLeq(Zero, m) /\ FracLeq(m, One)
       /\ s > 0 => FracLeq(RampMultiplier(s - 1, g), m)

\* C1 witness: adv_grad_iter = 100 at step 50 gives one half.
C1_HalfWayWitness ==
  /\ pc = "ramp_out"
  /\ hyperparams.adv_grad_iter = 100
  /\ adv_iter = 50
  /\ FracEq(adv_loss_multiplier, Frac(1, 2))

\* C2: with adversarial training on, the k-th training batch of a run (counted across
\* epochs) uses adversarial step counter k - 1 and the counter grows by one per batch, so
\* the multiplier is 0 on the first batch and 1 once k - 1 >= adv_grad_iter; with
\* adversarial training off the counter stays 0.
C2_AdvCounterIsBatchOrdinal ==
  IF hyperparams.train_adv
    THEN /\ \A i \in Idx("ramp") : trace[i][3] = Cardinality(Before("forward", i)) - 1
         /\ adv_iter = Cardinality(Idx("ramp"))
         /\ pc \in {"t_zero", "t_backward", "t_clip", "t_step", "t_log", "train_loop"} =>
              adv_iter = Cardinality(Idx("forward"))
         /\ pc = "t_zero" =>
              /\ adv_iter = 1 => FracEq(adv_loss_multiplier, Zero)
              /\ adv_iter - 1 >= hyperparams.adv_grad_iter => adv_loss_multiplier = One
              /\ adv_iter - 1 < hyperparams.adv_grad_iter =>
                   FracEq(adv_loss_multiplier, Frac(adv_iter - 1, hyperparams.adv_grad_iter))
    ELSE adv_iter = 0 /\ Idx("ramp") = {}

\* C2 witness: adv_grad_iter = 4, the fifth batch of the run (in a later epoch) runs at 1.
C2_FifthBatchWitness ==
  /\ hyperparams.train_adv
  /\ hyperparams.adv_grad_iter = 4
  /\ pc = "t_zero"
  /\ Cardinality(Idx("forward")) = 5
  /\ cur_epoch > 0
  /\ adv_loss_multiplier = One

LogIdx(key) == {i \in DOMAIN wandb_log : wandb_log[i].key = key}
TrainPcs == {"train_loop", "t_adv", "t_zero", "t_backward", "t_clip", "t_step", "t_log"}
MlpPcs == {"mlp_loop", "mlp_batches", "m_zero", "m_backward", "m_clip", "m_step"}
MidBatchPcs == {"t_adv", "t_zero", "t_backward", "t_clip", "t_step", "m_zero", "m_backward", "m_clip", "m_step"}
OptOps == {"zero_grad", "backward", "clip", "step"}
BatchStarts == Idx("forward") \cup Idx("mlp_forward")

\* C3: a fresh run of E epochs over T training and V >= 1 validation batches, logging on
\* and adversarial training off, that returns normally has written exactly the E
\* checkpoints of epochs 0..E-1, logged E*T training steps and E validation summaries, and
\* ends with num_iter = E*T.
C3_FreshRunTotals ==
  (/\ pc = "done"
   /\ "load_checkpoint" \notin calls
   /\ cfg.log_to_wandb
   /\ ~hyperparams.train_adv
   /\ valid_len >= 1) =>
    LET E == hyperparams.num_epochs
        T == train_len
    IN /\ Cardinality(Idx("save")) = E
       /\ {trace[i][3] : i \in Idx("save")} = 0 .. E - 1
       /\ DOMAIN fs = {CkptPath(cfg, e) : e \in 0 .. E - 1}
       /\ Len(fs_writes) = E
       /\ Cardinality(LogIdx("train/loss")) = E * T
       /\ {wandb_log[i].step : i \in LogIdx("train/loss")} = 0 .. E * T - 1
       /\ Cardinality(LogIdx("valid/loss")) = E
       /\ num_iter = E * T

\* C3 witness: 2 epochs, 2 training batches, 1 validation batch.
C3_TwoByTwoWitness ==
  /\ pc = "done"
  /\ cfg.log_to_wandb /\ ~hyperparams.train_adv
  /\ hyperparams.num_epochs = 2 /\ train_len = 2 /\ valid_len = 1
  /\ num_iter = 4
  /\ Cardinality(LogIdx("train/loss")) = 4
  /\ Cardinality(LogIdx("valid/loss")) = 2
  /\ DOMAIN fs = {CkptPath(cfg, 0), CkptPath(cfg, 1)}

\* The optimizer operations recorded after batch start i and before the next batch start.
OpsOfBatch(starts, i) ==
  LET later == {j \in starts : j > i}
      stop == IF later = {} THEN Len(trace) + 1 ELSE CHOOSE j \in later : \A k \in later : j <= k
      IsOpt(e) == e[1] \in OptOps
      ops == SelectSeq(SubSeq(trace, i + 1, stop - 1), IsOpt)
  IN [k \in DOMAIN ops |-> ops[k][1]]
FourOps == <<"zero_grad", "backward", "clip", "step">>
BatchOver(starts, i) == (\E j \in starts : j > i) \/ pc \notin (MidBatchPcs \cup {"error"})

\* C4: every training batch of train and of _train_mlp_submodules that runs to its end
\* performs zero_grad, backward, clip, step exactly once each and in that order; no batch
\* performs them in another order, and every optimizer step acts on clipped gradients.
C4_ZeroBackwardClipStep ==
  LET starts == BatchStarts
  IN /\ \A i \in starts :
          LET ops == OpsOfBatch(starts, i)
          IN /\ Len(ops) <= 4
             /\ ops = SubSeq(FourOps, 1, Len(ops))
             /\ BatchOver(starts, i) => ops = FourOps
     /\ \A i \in DOMAIN trace : trace[i][1] \in OptOps => \E j \in starts : j < i
     /\ pc \in {"t_step", "m_step"} => grads = "clipped"

\* C4 witness: an adversarial training batch has been stepped in a run whose MLP
\* pre-training also stepped a batch.
C4_BothRoutinesWitness ==
  /\ pc = "t_log"
  /\ hyperparams.train_adv
  /\ \E i \in Idx("mlp_forward") : OpsOfBatch(BatchStarts, i) = FourOps
  /\ \E i \in Idx("forward") : OpsOfBatch(BatchStarts, i) = FourOps

\* C5: no step of the validation phase (entering it, a validation batch, the summary)
\* changes the parameters, the optimizer state, the gradients or either step counter, or
\* performs zero_grad, backward, clip or step.
C5_ValidationFrame ==
  [][(pc = "valid_loop" \/ pc' = "valid_loop") =>
       /\ UNCHANGED <<params, opt_state, grads, num_iter, adv_iter>>
       /\ \A i \in DOMAIN trace' : i > Len(trace) => trace'[i][1] \notin OptOps]_vars

\* C5 witness: a validation phase with batches has run to its end after training steps.
C5_ValidatedWitness ==
  /\ pc = "save"
  /\ valid_len = MaxValid /\ bi = valid_len
  /\ Idx("valid_forward") # {}
  /\ params.backbone > 0 /\ num_iter > 0 /\ adv_iter > 0

\* C6: each epoch whose validation phase completed gets exactly one checkpoint, written
\* after its last validation batch and before the next epoch's first batch, whose stored
\* epoch and file-name epoch are that epoch's index, with logging on or off.
C6_OneCheckpointPerEpoch ==
  /\ \A i \in Idx("save") :
       /\ trace[i][2] = trace[i][3]
       /\ \E j \in Before("epoch", i) :
            /\ trace[j][2] = trace[i][2]
            /\ \A k \in j + 1 .. i - 1 : trace[k][1] \notin {"epoch", "save"}
       /\ \A k \in Idx("valid_forward") : trace[k][2] = trace[i][2] => k < i
  /\ \A i \in Idx("epoch") :
       Before("epoch", i - 1) # {} => trace[i - 1][1] = "save" /\ trace[i - 1][2] = trace[i][2] - 1
  /\ pc \in {"epoch_loop", "done"} => Cardinality(Idx("save")) = Cardinality(Idx("epoch"))
  /\ pc \in {"epoch_loop", "done"} /\ Idx("epoch") # {} =>
       /\ CkptPath(cfg, cur_epoch) \in DOMAIN fs
       /\ fs[CkptPath(cfg, cur_epoch)] = Snapshot
  /\ \A k \in DOMAIN fs : fs[k].epoch = k[3]

\* C6 witness: logging is off and two epochs with validation batches have been saved.
C6_SavedWithoutLoggingWitness ==
  /\ pc = "epoch_loop"
  /\ ~cfg.log_to_wandb
  /\ valid_len >= 1
  /\ Cardinality(Idx("save")) = 2
  /\ fs[CkptPath(cfg, 1)].epoch = 1

\* C7: whenever _train_mlp_submodules is not executing (it has not been called, has
\* returned, or has been left by an exception) the backbone is unfrozen.
C7_BackboneUnfrozenOnExit ==
  pc \notin MlpPcs => ~frozen

\* C8: with an empty validation stream train halts with a descriptive degenerate-metric
\* error, with logging on or off: the epoch is never saved, no validation summary is
\* logged, and the failure of the validation phase is not a division by zero.
C8_EmptyValidationIsDetected ==
  (valid_len = 0 /\ "train" \in calls) =>
    /\ pc # "save"
    /\ Idx("save") = {}
    /\ LogIdx("valid/loss") = {}
    /\ (pc = "error" /\ model_mode = "eval") => err = "DegenerateMetricError"

\* C9: a run of main whose configuration supplies a checkpoint path has gone through
\* load_checkpoint (or died there) before train starts, and a run without a path never
\* calls load_checkpoint.
C9_MainResumesWhenPathSupplied ==
  entry = "main" =>
    /\ (cfg.load_checkpoint # NoPath /\ "train" \in calls) => "load_checkpoint" \in calls
    /\ cfg.load_checkpoint = NoPath => "load_checkpoint" \notin calls

\* C10: over all runs of one model kind and run name, resumed or not, no checkpoint
\* artifact is written twice.
C10_CheckpointWrittenOnce ==
  \A i, j \in DOMAIN fs_writes : fs_writes[i] = fs_writes[j] => i = j

\* C11: a run terminated from outside at any point, save_checkpoint included, leaves
\* the most recent fully written checkpoint intact and loadable, in fresh and in
\* resumed runs alike.
C11_KillKeepsLastCheckpoint ==
  (pc = "killed" /\ fs_writes # <<>>) => fs[fs_writes[Len(fs_writes)]] # Truncated

\* load_checkpoint has just returned to its caller
Loaded == calls = {"load_checkpoint"} /\ pc = "api"

\* C12: round trip.  load_checkpoint of an artifact, on a trainer on the device of the
\* trainer that saved it, yields the epoch counter, the model state and the optimizer
\* state that save_checkpoint was called with.
C12_RoundTrip ==
  Loaded =>
    LET saved == fs_saved[cfg.load_checkpoint]
    IN  saved[4] \in {"none", device} => TrainerState = saved

\* C12 witness: a second run has restored epoch 1 and two optimizer steps on cuda.
C12_RestoredWitness ==
  /\ Loaded
  /\ run = 2
  /\ fs_saved[cfg.load_checkpoint][4] = device
  /\ TrainerState = <<1, [mlp |-> 2, backbone |-> 2], 2, "cuda">>

\* C13: after load_checkpoint returns, the tensors of the optimizer state are on the
\* run's device whatever device they were stored on, and the non-tensor entries (the
\* step counts) keep the loaded value.
C13_OptimizerStateOnDevice ==
  Loaded =>
    /\ opt_device \in {"none", device}
    /\ fs[cfg.load_checkpoint].optimizer_device # "none" => opt_device = device
    /\ opt_state = fs[cfg.load_checkpoint].optimizer

\* C13 witness: a state stored on cpu has been loaded by a run on cuda.
C13_MigratedWitness ==
  /\ Loaded
  /\ fs[cfg.load_checkpoint].optimizer_device = "cpu"
  /\ device = "cuda"
  /\ opt_device = "cuda"
  /\ opt_state > 0

ConfigErrors == {"ValueError: Invalid split method", "ValueError: Invalid model name"}

\* C14: with a split selector outside {version, act} or a model selector outside
\* {RNN, CNN}, main stops with a configuration error before the Trainer exists and
\* before any batch, optimizer step, log or checkpoint write; a configuration error
\* is never raised once train has been entered.
C14_InvalidSelectorFailsFast ==
  /\ (entry = "main" /\ (cfg.split \notin SplitMethods \/ cfg.model \notin ModelKinds)) =>
       /\ pc \in {"main_split", "main_model", "error"}
       /\ pc = "error" => err \in ConfigErrors
       /\ calls = {}
       /\ trace = <<>>
       /\ wandb_log = <<>>
       /\ fs_writes = <<>>
       /\ opt_state = 0
       /\ params = [mlp |-> 0, backbone |-> 0]
  /\ err \in ConfigErrors => (calls = {} /\ trace = <<>>)

\* C14 witness: a valid split with an unknown model name has stopped main.
C14_InvalidModelWitness ==
  /\ entry = "main"
  /\ cfg.split \in SplitMethods
  /\ cfg.model \notin ModelKinds
  /\ pc = "error"
  /\ err = "ValueError: Invalid model name"

\* C15: logging does not affect control flow.  For the same configuration, batch
\* streams (an empty validation stream included) and starting state, the call with
\* logging disabled performs the same forward passes, optimizer steps and checkpoint
\* saves as the call with logging enabled, and ends with the same counters and the
\* same outcome.
C15_LoggingLeavesControlFlow ==
  (twin # NoTwin /\ pc \in {"done", "error"}) => Outcome = twin

\* C16: on every logged training batch the value logged as train/loss is the bce of
\* the leitmotif prediction alone and the value logged as adv/version_loss is the ce
\* of the version prediction alone, whatever was added to compose the total loss.
C16_LoggedLossesAreUncomposed ==
  \A i \in DOMAIN wandb_log :
    /\ wandb_log[i].key = "train/loss" => TensorEq(wandb_log[i].value, BceLeitmotif)
    /\ wandb_log[i].key = "adv/version_loss" => TensorEq(wandb_log[i].value, CeVersion)

\* number of entries of a set of positions that come before position i
Rank(positions, i) == Cardinality({j \in positions : j < i})

\* C17: only the epoch counter crosses a checkpoint.  When train starts, after
\* load_checkpoint or not, num_iter and adv_iter are 0; the training logs of a run are
\* keyed 0, 1, 2, ... in order; the adversarial batches of a run use adv_iter = 0, 1,
\* 2, ..., the first with multiplier 0; a stored checkpoint holds no step counter.
C17_StepCountersRestartAtZero ==
  /\ (pc = "epoch_loop" /\ Idx("epoch") = {}) => (num_iter = 0 /\ adv_iter = 0)
  /\ \A i \in LogIdx("train/loss") : wandb_log[i].step = Rank(LogIdx("train/loss"), i)
  /\ \A i \in Idx("ramp") : trace[i][3] = Rank(Idx("ramp"), i)
  /\ Cardinality(Idx("ramp")) = 1 => FracEq(adv_loss_multiplier, Zero)
  /\ \A k \in DOMAIN fs : DOMAIN fs[k] = {"epoch", "model", "optimizer", "optimizer_device"}

\* C17 witness: a run resumed at epoch 1 has logged its first adversarial batch under key 0.
C17_ResumedFirstLogWitness ==
  /\ "load_checkpoint" \in calls
  /\ cur_epoch = 1
  /\ hyperparams.train_adv
  /\ pc = "train_loop"
  /\ num_iter = 1
  /\ adv_iter = 1
  /\ FracEq(adv_loss_multiplier, Zero)
  /\ \E i \in LogIdx("train/loss") : wandb_log[i].step = 0

\* C18: in train every training batch is processed in training mode with mixup on and
\* every validation batch in evaluation mode with mixup off, in every epoch and also
\* when train follows _train_mlp_submodules; within an epoch every training batch
\* comes before every validation batch.
C18_PhaseModes ==
  /\ pc \in TrainPcs => (model_mode = "train" /\ mixup)
  /\ pc = "valid_loop" => (model_mode = "eval" /\ ~mixup)
  /\ \A i \in Idx("forward"), j \in Idx("valid_forward") : trace[i][2] = trace[j][2] => i < j

\* C18 witness: a training batch of the second epoch, after the validation of the first.
C18_SecondEpochWitness ==
  /\ cur_epoch = 1
  /\ pc = "t_adv"
  /\ \E j \in Idx("valid_forward") : trace[j][2] = 0
  /\ model_mode = "train"
  /\ mixup

\* the epoch counter train starts from: the stored epoch after load_checkpoint, else 0
StartEpoch == IF "load_checkpoint" \in calls THEN fs[cfg.load_checkpoint].epoch ELSE 0
EpochsLeft == IF StartEpoch < hyperparams.num_epochs THEN hyperparams.num_epochs - StartEpoch ELSE 0

\* the epochs executed so far are StartEpoch, StartEpoch + 1, ... in order, below num_epochs
EpochsInOrder ==
  "train" \in calls =>
    \A i \in Idx("epoch") :
      /\ trace[i][2] = StartEpoch + Rank(Idx("epoch"), i)
      /\ trace[i][2] < hyperparams.num_epochs

\* a call of train that has returned executed every epoch of its range, each to its checkpoint
AllEpochsRun ==
  pc = "done" =>
    /\ Cardinality(Idx("epoch")) = EpochsLeft
    /\ Cardinality(Idx("save")) = EpochsLeft
    /\ Cardinality(Idx("forward")) = EpochsLeft * train_len
    /\ Cardinality(Idx("valid_forward")) = EpochsLeft * valid_len
    /\ IF StartEpoch < hyperparams.num_epochs
         THEN cur_epoch = hyperparams.num_epochs - 1
         ELSE cur_epoch = StartEpoch /\ Idx("forward") = {} /\ Idx("save") = {}

\* Termination of train: a bound on the steps a call of train can still take.  It is
\* positive while the call is executing, 0 once it has returned or raised, and every
\* step of the call lowers it; a call that is executing can always take a step.
InTrainPcs == TrainPcs \cup {"train_init", "epoch_loop", "valid_loop", "save"}
EpochWork == 7 * train_len + valid_len + 4
EpochsAhead(e) == IF e < hyperparams.num_epochs THEN hyperparams.num_epochs - e ELSE 0
BatchWork ==
  [train_loop |-> 0, t_adv |-> 6, t_zero |-> 5, t_backward |-> 4, t_clip |-> 3, t_step |-> 2, t_log |-> 1]
WorkLeft ==
  CASE pc = "train_init" -> 2 + EpochsAhead(cur_epoch) * EpochWork
    [] pc = "epoch_loop" -> 1 + EpochsAhead(epoch_it) * EpochWork
    [] pc \in TrainPcs ->
         1 + EpochsAhead(epoch_it) * EpochWork + BatchWork[pc] + 7 * (train_len - bi) + valid_len + 3
    [] pc = "valid_loop" -> 1 + EpochsAhead(epoch_it) * EpochWork + (valid_len - bi) + 2
    [] pc = "save" -> 1 + EpochsAhead(epoch_it) * EpochWork + 1
    [] OTHER -> 0

WorkDecreases == pc \in InTrainPcs => WorkLeft' < WorkLeft

C20_ZeroRampLengthStopsFirstBatch ==
  /\ (hyperparams.train_adv /\ hyperparams.adv_grad_iter = 0 /\ "train" \in calls) =>
       /\ Cardinality(Idx("forward")) <= 1
       /\ \A i \in DOMAIN trace : trace[i][1] \notin OptOps \cup {"ramp"}
       /\ num_iter = 0 /\ adv_iter = 0
       /\ opt_state = 0
       /\ pc \notin {"t_zero", "t_backward", "t_clip", "t_step", "t_log"}
       /\ (Idx("forward") # {} /\ pc # "t_adv") => (pc = "error" /\ err = "ZeroDivisionError")
       /\ (train_len > 0 /\ hyperparams.num_epochs > 0) => (fs_writes = <<>> /\ pc # "done")
  /\ ~hyperparams.train_adv =>
       /\ Idx("ramp") = {}
       /\ adv_iter = 0
       /\ adv_loss_multiplier = Zero
       /\ (pc = "error" /\ err = "ZeroDivisionError") => model_mode = "eval"

\* C20 witness: the first training batch of an adversarial call with adv_grad_iter = 0
\* has ended the call.
C20_DivisionErrorWitness ==
  /\ hyperparams.train_adv
  /\ hyperparams.adv_grad_iter = 0
  /\ Cardinality(Idx("forward")) = 1
  /\ pc = "error"
  /\ err = "ZeroDivisionError"
  /\ grads = "none"

====
